---- MODULE Spec2Model ----
(***************************************************************************)
(* Model of src/sidekick.py: the Sidekick engine, a LangGraph StateGraph   *)
(* with the nodes worker, tools and evaluator, compiled with a MemorySaver *)
(* checkpointer and driven by run_superstep.                               *)
(*                                                                         *)
(* Text is modelled as a sequence of tokens (strings): the empty string is *)
(* <<>>, concatenation is \o, and "a contains b" is "b is a contiguous     *)
(* subsequence of a".                                                      *)
(***************************************************************************)
EXTENDS Integers, Sequences, FiniteSets, TLC

\* ------------------------------------------------------------------ bounds
\* Engine instances (Sidekick objects) that exist in the host process.
NumSessions == 2
\* Cap on the number of entries of one session's messages channel.
MaxMsgs == 8
\* The same cap for the first of two instances that run side by side.
MaxMsgsTwo == 3
\* The entries one superstep appends at least (user message, reply, feedback):
\* the cap for the second of two instances.
ShortestSuperstep == 3
\* The recursion_limit of a graph run whose config names none (the default of
\* the library): the node steps one ainvoke may take.
RecursionLimit == 25
\* Cap on the number of cleanup() calls on one instance.
MaxCleanups == 2

Sessions == 1..NumSessions

\* ------------------------------------------------------------------ values
\* Python's None, as a text no alphabet below contains.
None == <<"None">>

\* `x or default`, `if x:` on an Optional[str]: None and "" are falsy.
Truthy(text) == text # None /\ text # <<>>

\* The message argument of run_superstep.
UserMessages == {<<"m1">>, <<"m2">>}
\* The success_criteria argument of run_superstep: absent, empty or a text.
CriteriaArgs == {None, <<>>, <<"c1">>}
\* What the worker model can answer: a final text, or a request for tools.
WorkerResponses ==
    { [content |-> <<"a1">>, tool_calls |-> <<>>],
      [content |-> <<>>,     tool_calls |-> <<"t1">>],
      [content |-> <<"a2">>, tool_calls |-> <<"t1", "t2">>] }
\* What a tool invocation can yield (ToolNode turns an error into text).
ToolOutcomes == {<<"ok">>, <<"Error:", "tool failed">>}
\* The feedback field of an EvaluatorOutput.
Feedbacks == {<<>>, <<"f1">>, <<"f2">>}
\* datetime.now() as formatted into the worker's instruction.
Times == {"2026-01-01 00:00:00"}
\* The ways the evaluator's structured model call can fail.
EvalFailures == {"call_error", "parse_error"}

\* EvaluatorOutput (a pydantic model with three fields).
EvaluatorOutput ==
    [feedback : Feedbacks, success_criteria_met : BOOLEAN, user_input_needed : BOOLEAN]

\* No judgment has been returned (to the evaluator node) in this superstep.
NoJudgment ==
    [feedback |-> None, success_criteria_met |-> FALSE, user_input_needed |-> FALSE]

\* ---------------------------------------------------------------- messages
\* id 0: the message object carries no id yet (add_messages assigns one).
HumanMessage(c) == [type |-> "human", content |-> c, tool_calls |-> <<>>, id |-> 0]
SystemMessage(c) == [type |-> "system", content |-> c, tool_calls |-> <<>>, id |-> 0]
AIMessage(c, calls) == [type |-> "ai", content |-> c, tool_calls |-> calls, id |-> 0]
ToolMessage(c) == [type |-> "tool", content |-> c, tool_calls |-> <<>>, id |-> 0]

Last(seq) == seq[Len(seq)]

\* b occurs in a as a contiguous run of tokens.
Contains(a, b) ==
    \E i \in 0..(Len(a) - Len(b)) : SubSeq(a, i + 1, i + Len(b)) = b

SystemCount(msgs) == Cardinality({i \in DOMAIN msgs : msgs[i].type = "system"})

RECURSIVE MergeById(_, _)
MergeById(left, right) ==
    IF right = <<>> THEN left
    ELSE LET m == Head(right)
             same == {i \in DOMAIN left : left[i].id = m.id}
         IN  MergeById(IF same = {} THEN Append(left, m)
                       ELSE [left EXCEPT ![CHOOSE i \in same : TRUE] = m],
                       Tail(right))

\* A channel without a reducer: the update replaces the value.
ReplaceMessages(left, right, nid) ==
    [i \in DOMAIN right |-> [right[i] EXCEPT !.id = nid + i - 1]]

\* langgraph's add_messages reducer of State.messages: messages without an id
\* get a fresh one (nid, nid+1, ...), a message whose id is already present
\* replaces that entry, any other is appended.
add_messages(left, right, nid) ==
    MergeById(left,
              [i \in DOMAIN right |->
                  IF right[i].id = 0 THEN [right[i] EXCEPT !.id = nid + i - 1]
                  ELSE right[i]])

\* ------------------------------------------------------------- checkpoints
\* The channels of a thread no run has written yet.
EmptyState ==
    [messages |-> <<>>, success_criteria |-> None, feedback_on_work |-> None,
     success_criteria_met |-> FALSE, user_input_needed |-> FALSE]

\* The MemorySaver keeps a checkpoint in serialised form: a message becomes
\* the tuple of its fields, an Optional[str] a tagged value, a bool a word.
DumpMessage(m) == <<m.type, m.content, m.tool_calls, m.id>>

DumpOptional(text) ==
    IF text = None THEN [tag |-> "nil", val |-> <<>>] ELSE [tag |-> "str", val |-> text]

DumpBool(b) == IF b THEN "true" ELSE "false"

\* A loader that rebuilds a message without its tool_calls.
LoadMessageNoToolCalls(t) ==
    [type |-> t[1], content |-> t[2], tool_calls |-> <<>>, id |-> t[4]]

LoadMessage(t) == [type |-> t[1], content |-> t[2], tool_calls |-> t[3], id |-> t[4]]

LoadOptional(v) == IF v.tag = "nil" THEN None ELSE v.val

LoadBool(w) == w = "true"

\* checkpointer.put: the channel values of st as the saver stores them.
Save(st) ==
    [messages |-> [i \in DOMAIN st.messages |-> DumpMessage(st.messages[i])],
     success_criteria |-> DumpOptional(st.success_criteria),
     feedback_on_work |-> DumpOptional(st.feedback_on_work),
     success_criteria_met |-> DumpBool(st.success_criteria_met),
     user_input_needed |-> DumpBool(st.user_input_needed)]

\* checkpointer.get_tuple: the State rebuilt from the latest checkpoint of a
\* thread, or the empty channels when the thread has none.
Load(checkpoints) ==
    IF checkpoints = <<>>
    THEN EmptyState
    ELSE LET c == checkpoints[Len(checkpoints)]
         IN  [messages |-> [i \in DOMAIN c.messages |-> LoadMessage(c.messages[i])],
              success_criteria |-> LoadOptional(c.success_criteria),
              feedback_on_work |-> LoadOptional(c.feedback_on_work),
              success_criteria_met |-> LoadBool(c.success_criteria_met),
              user_input_needed |-> LoadBool(c.user_input_needed)]

\* Every instance configured with the thread id of the first one.
SharedThread(s) == 1

\* config["configurable"]["thread_id"]: self.sidekick_id, a uuid4 per instance.
ThreadOf(s) == s

\* ------------------------------------------------------------------- state
VARIABLES
    active,       \* the Sidekick instances that were set up
    state,        \* per instance: the State kept by its checkpointer (self.memory)
    next_id,      \* per instance: the next fresh message id
    node,         \* per instance: the graph node that runs next
    call,         \* per instance: status of the run_superstep call
    args,         \* per instance: the arguments of the current/last run_superstep
    result,       \* per instance: what the last run_superstep returned (<<>>: nothing)
    trace,        \* per instance: the nodes entered in the current superstep
    base,         \* per instance: len(messages) when the current superstep began
    llm_input,    \* per instance: the messages of the last worker model call
    eval_result,  \* per instance: the last EvaluatorOutput of this superstep
    failure,      \* per instance: the exception a model call of this superstep raised
    store,        \* per thread id: the checkpoints the MemorySaver holds (latest only)
    cap,          \* per instance: the cap on len(messages) in the run that is checked
    browser,      \* per instance: self.browser ("None" or "handle")
    playwright,   \* per instance: self.playwright ("None" or "handle")
    closes,       \* per instance: the browser.close() calls made so far
    stops,        \* per instance: the playwright.stop() calls made so far
    tasks,        \* per instance: where each scheduled _cleanup task stands
    cleanups,     \* per instance: the cleanup() calls made so far
    policy        \* per instance: how the models answer in the run that is checked

core == <<active, state, next_id, node, call, args, result, trace, base,
          llm_input, eval_result, failure, store, cap>>

NoArgs == [message |-> <<>>, success_criteria |-> None, history |-> <<>>]

\* What every instance holds after __init__, before its first run_superstep.
InitCore ==
    /\ state = [s \in Sessions |-> EmptyState]
    /\ next_id = [s \in Sessions |-> 1]
    /\ node = [s \in Sessions |-> "START"]
    /\ call = [s \in Sessions |-> "none"]
    /\ args = [s \in Sessions |-> NoArgs]
    /\ result = [s \in Sessions |-> <<>>]
    /\ trace = [s \in Sessions |-> <<>>]
    /\ base = [s \in Sessions |-> 0]
    /\ llm_input = [s \in Sessions |-> <<>>]
    /\ eval_result = [s \in Sessions |-> NoJudgment]
    /\ failure = [s \in Sessions |-> "none"]
    /\ store = [t \in Sessions |-> <<>>]

\* The node steps the running graph invocation of instance s has completed.
Steps(s) == IF trace[s] = <<>> THEN 0 ELSE Len(trace[s]) - 1

\* Writes that leave a channel alone when the value written is None.
ApplyWritesSkipNone(st, upd, nid) ==
    [k \in DOMAIN st |->
        IF k \in DOMAIN upd
        THEN IF k = "messages" THEN add_messages(st.messages, upd.messages, nid)
             ELSE IF k = "feedback_on_work" /\ upd[k] = None THEN st[k] ELSE upd[k]
        ELSE st[k]]

\* ------------------------------------------------------------ graph state
\* Applying a node's (or the input's) partial State to the channels: messages
\* goes through its reducer, every other key written replaces the value.
ApplyWrites(st, upd, nid) ==
    [k \in DOMAIN st |->
        IF k \in DOMAIN upd
        THEN IF k = "messages" THEN add_messages(st.messages, upd.messages, nid)
             ELSE upd[k]
        ELSE st[k]]

\* ------------------------------------------------------------------ worker
\* The instruction with the rejection clause left from the first judgment of
\* the superstep rather than rebuilt from the current feedback_on_work.
StaleInstruction(st, now) ==
    <<"You are a helpful assistant", "Current date and time:", now,
      "Success criteria:">> \o st.success_criteria
    \o (IF Truthy(st.feedback_on_work)
        THEN <<"Previous attempt was rejected for the following reason:", "f1",
               "Please correct the issue and continue.">>
        ELSE <<>>)

\* system_message as worker builds it from the State it is given.
WorkerInstruction(st, now) ==
    <<"You are a helpful assistant", "Current date and time:", now,
      "Success criteria:">> \o st.success_criteria
    \o (IF Truthy(st.feedback_on_work)
        THEN <<"Previous attempt was rejected for the following reason:">>
             \o st.feedback_on_work
             \o <<"Please correct the issue and continue.">>
        ELSE <<>>)

\* The loop over messages: every SystemMessage object gets the new content
\* (the objects are those of the State, so the State sees the change).
RewriteSystem(msgs, system_message) ==
    [i \in DOMAIN msgs |->
        IF msgs[i].type = "system"
        THEN [msgs[i] EXCEPT !.content = system_message]
        ELSE msgs[i]]

\* The sequence without a system entry when none is in the State.
LlmMessagesNoPrepend(msgs, system_message) == RewriteSystem(msgs, system_message)

\* The local `messages` the worker passes to the model.
WorkerLlmMessages(msgs, system_message) ==
    LET found_system == \E i \in DOMAIN msgs : msgs[i].type = "system"
    IN  IF found_system THEN RewriteSystem(msgs, system_message)
        ELSE <<SystemMessage(system_message)>> \o RewriteSystem(msgs, system_message)

\* The update that also stores the local `messages` (system entry included).
WorkerUpdateWithSystem(llm_messages, response) ==
    [messages |-> <<llm_messages[1], response>>]

\* The update of a worker that also clears feedback_on_work once it has used it.
WorkerUpdateClearingFeedback(llm_messages, response) ==
    [messages |-> <<response>>, feedback_on_work |-> None]

\* What worker returns: the response alone.
WorkerUpdate(llm_messages, response) == [messages |-> <<response>>]

\* A router that looks at every entry instead of the last one.
RouterAnyEntry(st) ==
    IF \E i \in DOMAIN st.messages :
          st.messages[i].type = "ai" /\ Len(st.messages[i].tool_calls) > 0
    THEN "tools" ELSE "evaluator"

\* A router with its two branches exchanged.
RouterSwapped(st) ==
    LET last_message == Last(st.messages)
    IN  IF last_message.type = "ai" /\ Len(last_message.tool_calls) > 0
        THEN "evaluator" ELSE "tools"

\* The conditional edge out of the worker: tool calls on the last message
\* lead to the tools node, anything else to the evaluator.
worker_router(st) ==
    LET last_message == Last(st.messages)
    IN  IF last_message.type = "ai" /\ Len(last_message.tool_calls) > 0
        THEN "tools" ELSE "evaluator"

\* --------------------------------------------------------------- evaluator
\* The update with the bare feedback as the content of the new entry.
EvaluatorUpdateRawFeedback(eval) ==
    [messages |-> <<AIMessage(eval.feedback, <<>>)>>,
     feedback_on_work |-> eval.feedback,
     success_criteria_met |-> eval.success_criteria_met,
     user_input_needed |-> eval.user_input_needed]

\* What evaluator returns for the judgment eval.
EvaluatorUpdate(eval) ==
    [messages |-> <<AIMessage(<<"Evaluator feedback: ">> \o eval.feedback, <<>>)>>,
     feedback_on_work |-> eval.feedback,
     success_criteria_met |-> eval.success_criteria_met,
     user_input_needed |-> eval.user_input_needed]

\* A route that ends only on success.
RouteOnSuccessOnly(st) == IF st.success_criteria_met THEN "END" ELSE "worker"

route_based_on_evaluation(st) ==
    IF st.success_criteria_met \/ st.user_input_needed THEN "END" ELSE "worker"

\* The tools node wired to the evaluator instead of back to the worker.
ToolsEdgeToEvaluator == "evaluator"

\* graph.add_edge("tools", "worker")
ToolsEdge == "worker"

\* The edges build_graph adds.
Edges ==
    { <<"START", "worker">>, <<"worker", "tools">>, <<"worker", "evaluator">>,
      <<"tools", "worker">>, <<"evaluator", "worker">>, <<"evaluator", "END">> }

\* ----------------------------------------------------------- run_superstep
\* The input with the criteria argument passed on as it came.
SuperstepInputNoDefault(message, success_criteria) ==
    [messages |-> <<HumanMessage(message)>>,
     success_criteria |-> success_criteria,
     feedback_on_work |-> None,
     success_criteria_met |-> FALSE,
     user_input_needed |-> FALSE]

\* The State run_superstep hands to graph.ainvoke.
SuperstepInput(message, success_criteria) ==
    [messages |-> <<HumanMessage(message)>>,
     success_criteria |-> IF Truthy(success_criteria) THEN success_criteria
                          ELSE <<"The answer should be clear and accurate">>,
     feedback_on_work |-> None,
     success_criteria_met |-> FALSE,
     user_input_needed |-> FALSE]

\* A transcript that takes the last two entries in the wrong order.
TranscriptSwapped(history, message, msgs) ==
    history \o << [role |-> "user", content |-> message],
                  [role |-> "assistant", content |-> msgs[Len(msgs)].content],
                  [role |-> "assistant", content |-> msgs[Len(msgs) - 1].content] >>

\* history + [user, reply, feedback]
Transcript(history, message, msgs) ==
    history \o << [role |-> "user", content |-> message],
                  [role |-> "assistant", content |-> msgs[Len(msgs) - 1].content],
                  [role |-> "assistant", content |-> msgs[Len(msgs)].content] >>

\* ----------------------------------------------------------------- actions
\* The caller starts run_superstep(message, success_criteria, history) with the
\* transcript it holds: the one last returned, or the one it passed before when
\* that call raised. graph.ainvoke writes the input to the thread's channels
\* and enters worker through START.
RunSuperstep(s) ==
    /\ call[s] # "running"
    /\ Len(state[s].messages) < cap[s]
    /\ \E message \in UserMessages, success_criteria \in CriteriaArgs :
          LET history == IF call[s] = "returned" THEN result[s] ELSE args[s].history
              input == SuperstepInput(message, success_criteria)
              loaded == Load(store[ThreadOf(s)])
              new == ApplyWrites(loaded, input, next_id[s])
          IN  /\ args' = [args EXCEPT ![s] =
                    [message |-> message, success_criteria |-> success_criteria,
                     history |-> history]]
              /\ state' = [state EXCEPT ![s] = new]
              /\ store' = [store EXCEPT ![ThreadOf(s)] = <<Save(new)>>]
              /\ base' = [base EXCEPT ![s] = Len(loaded.messages)]
              /\ next_id' = [next_id EXCEPT ![s] = next_id[s] + 1]
    /\ call' = [call EXCEPT ![s] = "running"]
    /\ result' = [result EXCEPT ![s] = <<>>]
    /\ node' = [node EXCEPT ![s] = "worker"]
    /\ trace' = [trace EXCEPT ![s] = <<"worker">>]
    /\ eval_result' = [eval_result EXCEPT ![s] = NoJudgment]
    /\ failure' = [failure EXCEPT ![s] = "none"]
    /\ UNCHANGED <<active, llm_input, cap>>

\* The worker node runs and the model answers.
Worker(s) ==
    /\ call[s] = "running"
    /\ node[s] = "worker"
    /\ Steps(s) < RecursionLimit
    /\ Len(state[s].messages) < cap[s]
    /\ \E now \in Times, r \in WorkerResponses :
          LET system_message == WorkerInstruction(state[s], now)
              messages == WorkerLlmMessages(state[s].messages, system_message)
              seen == [state[s] EXCEPT
                          !.messages = RewriteSystem(state[s].messages, system_message)]
              response == AIMessage(r.content, r.tool_calls)
              new == ApplyWrites(seen, WorkerUpdate(messages, response), next_id[s])
          IN  /\ llm_input' = [llm_input EXCEPT ![s] = messages]
              /\ state' = [state EXCEPT ![s] = new]
              /\ store' = [store EXCEPT ![ThreadOf(s)] = <<Save(new)>>]
              /\ next_id' = [next_id EXCEPT ![s] =
                    next_id[s] + Len(WorkerUpdate(messages, response).messages)]
              /\ node' = [node EXCEPT ![s] = worker_router(new)]
              /\ trace' = [trace EXCEPT ![s] = Append(trace[s], worker_router(new))]
    /\ UNCHANGED <<active, call, args, result, base, eval_result, failure, cap>>

\* A worker whose failed model call is caught and tried again.
WorkerFailRetried(s) ==
    /\ call[s] = "running"
    /\ node[s] = "worker"
    /\ failure[s] = "none"
    /\ \E now \in Times :
          llm_input' = [llm_input EXCEPT ![s] =
              WorkerLlmMessages(state[s].messages, WorkerInstruction(state[s], now))]
    /\ failure' = [failure EXCEPT ![s] = "call_error"]
    /\ UNCHANGED <<active, state, next_id, node, call, args, result, trace, base,
                   eval_result, store, cap>>

\* The worker node runs and the model call raises: the exception leaves
\* graph.ainvoke and run_superstep, and the node's step writes nothing.
WorkerFail(s) ==
    /\ call[s] = "running"
    /\ node[s] = "worker"
    /\ Steps(s) < RecursionLimit
    /\ \E now \in Times :
          LET system_message == WorkerInstruction(state[s], now)
          IN  /\ llm_input' = [llm_input EXCEPT ![s] =
                    WorkerLlmMessages(state[s].messages, system_message)]
              /\ state' = [state EXCEPT ![s].messages =
                    RewriteSystem(state[s].messages, system_message)]
    /\ call' = [call EXCEPT ![s] = "raised"]
    /\ failure' = [failure EXCEPT ![s] = "call_error"]
    /\ UNCHANGED <<active, next_id, node, args, result, trace, base, eval_result,
                   store, cap>>

\* A ToolNode without error handling: a tool's exception leaves the graph and
\* run_superstep raises it.
ToolsRaising(s) ==
    /\ call[s] = "running"
    /\ node[s] = "tools"
    /\ LET calls == Last(state[s].messages).tool_calls
       IN  /\ Len(state[s].messages) + Len(calls) <= cap[s]
           /\ \E outs \in [DOMAIN calls -> ToolOutcomes] :
                 IF \E i \in DOMAIN calls : outs[i] # <<"ok">>
                 THEN /\ call' = [call EXCEPT ![s] = "raised"]
                      /\ UNCHANGED <<state, store, next_id, node, trace>>
                 ELSE LET new == ApplyWrites(state[s],
                                     [messages |-> [i \in DOMAIN calls |-> ToolMessage(outs[i])]],
                                     next_id[s])
                      IN  /\ state' = [state EXCEPT ![s] = new]
                          /\ store' = [store EXCEPT ![ThreadOf(s)] = <<Save(new)>>]
                          /\ next_id' = [next_id EXCEPT ![s] = next_id[s] + Len(calls)]
                          /\ node' = [node EXCEPT ![s] = ToolsEdge]
                          /\ trace' = [trace EXCEPT ![s] = Append(trace[s], ToolsEdge)]
                          /\ UNCHANGED call
    /\ UNCHANGED <<active, args, result, base, llm_input, eval_result, failure, cap>>

\* The ToolNode runs the tool calls of the last message, one ToolMessage each;
\* a tool that fails yields a ToolMessage whose content is the error text.
Tools(s) ==
    /\ call[s] = "running"
    /\ node[s] = "tools"
    /\ Steps(s) < RecursionLimit
    /\ LET calls == Last(state[s].messages).tool_calls
       IN  /\ Len(state[s].messages) + Len(calls) <= cap[s]
           /\ \E outs \in [DOMAIN calls -> ToolOutcomes] :
                 LET new == ApplyWrites(state[s],
                                [messages |-> [i \in DOMAIN calls |-> ToolMessage(outs[i])]],
                                next_id[s])
                 IN  /\ state' = [state EXCEPT ![s] = new]
                     /\ store' = [store EXCEPT ![ThreadOf(s)] = <<Save(new)>>]
                     /\ next_id' = [next_id EXCEPT ![s] = next_id[s] + Len(calls)]
    /\ node' = [node EXCEPT ![s] = ToolsEdge]
    /\ trace' = [trace EXCEPT ![s] = Append(trace[s], ToolsEdge)]
    /\ UNCHANGED <<active, call, args, result, base, llm_input, eval_result, failure,
                   cap>>

\* The evaluator node runs and the structured model call returns a judgment.
Evaluator(s) ==
    /\ call[s] = "running"
    /\ node[s] = "evaluator"
    /\ Steps(s) < RecursionLimit
    /\ Len(state[s].messages) < cap[s]
    /\ \E eval \in EvaluatorOutput :
          LET new == ApplyWrites(state[s], EvaluatorUpdate(eval), next_id[s])
          IN  /\ eval_result' = [eval_result EXCEPT ![s] = eval]
              /\ state' = [state EXCEPT ![s] = new]
              /\ store' = [store EXCEPT ![ThreadOf(s)] = <<Save(new)>>]
              /\ node' = [node EXCEPT ![s] = route_based_on_evaluation(new)]
              /\ trace' = [trace EXCEPT ![s] =
                    Append(trace[s], route_based_on_evaluation(new))]
    /\ next_id' = [next_id EXCEPT ![s] = next_id[s] + 1]
    /\ UNCHANGED <<active, call, args, result, base, llm_input, failure, cap>>

\* An evaluator that answers a failed structured call with a default "met"
\* judgment instead of letting the exception through.
EvaluatorFailDefaulted(s) ==
    /\ call[s] = "running"
    /\ node[s] = "evaluator"
    /\ Len(state[s].messages) < cap[s]
    /\ \E kind \in EvalFailures : failure' = [failure EXCEPT ![s] = kind]
    /\ LET eval == [feedback |-> <<>>, success_criteria_met |-> TRUE,
                    user_input_needed |-> FALSE]
           new == ApplyWrites(state[s], EvaluatorUpdate(eval), next_id[s])
       IN  /\ state' = [state EXCEPT ![s] = new]
           /\ store' = [store EXCEPT ![ThreadOf(s)] = <<Save(new)>>]
           /\ node' = [node EXCEPT ![s] = route_based_on_evaluation(new)]
           /\ trace' = [trace EXCEPT ![s] =
                 Append(trace[s], route_based_on_evaluation(new))]
    /\ next_id' = [next_id EXCEPT ![s] = next_id[s] + 1]
    /\ UNCHANGED <<active, call, args, result, base, llm_input, eval_result, cap>>

\* The evaluator node runs and the structured model call raises (the call
\* itself, or the parse of its output into EvaluatorOutput): nothing is
\* returned by the node, the exception leaves run_superstep.
EvaluatorFail(s) ==
    /\ call[s] = "running"
    /\ node[s] = "evaluator"
    /\ Steps(s) < RecursionLimit
    /\ \E kind \in EvalFailures : failure' = [failure EXCEPT ![s] = kind]
    /\ call' = [call EXCEPT ![s] = "raised"]
    /\ UNCHANGED <<active, state, next_id, node, args, result, trace, base,
                   llm_input, eval_result, store, cap>>

\* A graph run that no step limit ever stops.
NeverOutOfSteps(s) ==
    /\ call[s] = "running"
    /\ node[s] # "END"
    /\ FALSE
    /\ call' = [call EXCEPT ![s] = "raised"]
    /\ failure' = [failure EXCEPT ![s] = "recursion_limit"]
    /\ UNCHANGED <<active, state, next_id, node, args, result, trace, base,
                   llm_input, eval_result, store, cap>>

\* graph.ainvoke has taken recursion_limit steps and a node is still due: it
\* raises GraphRecursionError, which run_superstep lets through.
OutOfSteps(s) ==
    /\ call[s] = "running"
    /\ node[s] # "END"
    /\ Steps(s) >= RecursionLimit
    /\ call' = [call EXCEPT ![s] = "raised"]
    /\ failure' = [failure EXCEPT ![s] = "recursion_limit"]
    /\ UNCHANGED <<active, state, next_id, node, args, result, trace, base,
                   llm_input, eval_result, store, cap>>

\* graph.ainvoke returned at END: run_superstep builds and returns the transcript.
Return(s) ==
    /\ call[s] = "running"
    /\ node[s] = "END"
    /\ result' = [result EXCEPT ![s] =
          Transcript(args[s].history, args[s].message, state[s].messages)]
    /\ call' = [call EXCEPT ![s] = "returned"]
    /\ UNCHANGED <<active, state, next_id, node, args, trace, base, llm_input,
                   eval_result, failure, store, cap>>

\* ----------------------------------------------------------------- cleanup
res == <<browser, playwright, closes, stops, tasks, cleanups>>

vars == <<core, res, policy>>

\* The handles and counters of instances, those in `up` being set up.
InitRes(up) ==
    /\ browser = [s \in Sessions |-> IF s \in up THEN "handle" ELSE "None"]
    /\ playwright = [s \in Sessions |-> IF s \in up THEN "handle" ELSE "None"]
    /\ closes = [s \in Sessions |-> 0]
    /\ stops = [s \in Sessions |-> 0]
    /\ tasks = [s \in Sessions |-> <<>>]
    /\ cleanups = [s \in Sessions |-> 0]

\* setup(): playwright_tools() hands over the browser and the driver.
Setup(s) ==
    /\ s \notin active
    /\ active' = active \cup {s}
    /\ browser' = [browser EXCEPT ![s] = "handle"]
    /\ playwright' = [playwright EXCEPT ![s] = "handle"]
    /\ UNCHANGED <<closes, stops, tasks, cleanups>>

\* cleanup() where no event loop runs: get_running_loop raises RuntimeError
\* and asyncio.run drives _cleanup to its end: close if self.browser, stop if
\* self.playwright. Neither attribute is assigned.
CleanupSync(s) ==
    /\ cleanups[s] < MaxCleanups
    /\ cleanups' = [cleanups EXCEPT ![s] = cleanups[s] + 1]
    /\ closes' = [closes EXCEPT ![s] = IF browser[s] # "None" THEN closes[s] + 1
                                       ELSE closes[s]]
    /\ stops' = [stops EXCEPT ![s] = IF playwright[s] # "None" THEN stops[s] + 1
                                     ELSE stops[s]]
    /\ UNCHANGED <<active, browser, playwright, tasks>>

\* cleanup() inside a running event loop: _cleanup is scheduled as a task and
\* cleanup returns at once.
CleanupInLoop(s) ==
    /\ cleanups[s] < MaxCleanups
    /\ cleanups' = [cleanups EXCEPT ![s] = cleanups[s] + 1]
    /\ tasks' = [tasks EXCEPT ![s] = Append(tasks[s], "start")]
    /\ UNCHANGED <<active, browser, playwright, closes, stops>>

\* The event loop runs a scheduled _cleanup task up to its next await.
CleanupTask(s) ==
    \E i \in DOMAIN tasks[s] :
        \/ /\ tasks[s][i] = "start"
           /\ tasks' = [tasks EXCEPT ![s][i] = "closed"]
           /\ closes' = [closes EXCEPT ![s] = IF browser[s] # "None" THEN closes[s] + 1
                                              ELSE closes[s]]
           /\ UNCHANGED <<active, browser, playwright, stops, cleanups>>
        \/ /\ tasks[s][i] = "closed"
           /\ tasks' = [tasks EXCEPT ![s][i] = "done"]
           /\ stops' = [stops EXCEPT ![s] = IF playwright[s] # "None" THEN stops[s] + 1
                                            ELSE stops[s]]
           /\ UNCHANGED <<active, browser, playwright, closes, cleanups>>

\* Instances are constructed, set up and cleaned up; no superstep runs.
InitCleanup ==
    /\ InitCore
    /\ active = {}
    /\ cap = [s \in Sessions |-> MaxMsgs]
    /\ InitRes({})
    /\ policy = [s \in Sessions |-> "any"]

NextCleanup ==
    \/ \E s \in Sessions : Setup(s) /\ UNCHANGED <<state, next_id, node, call, args,
           result, trace, base, llm_input, eval_result, failure, store, cap, policy>>
    \/ \E s \in Sessions : CleanupSync(s) /\ UNCHANGED <<core, policy>>
    \/ \E s \in Sessions : CleanupInLoop(s) /\ UNCHANGED <<core, policy>>
    \/ \E s \in Sessions : CleanupTask(s) /\ UNCHANGED <<core, policy>>

SpecCleanup == InitCleanup /\ [][NextCleanup]_vars

\* ------------------------------------------------------------ one instance
\* One engine instance, set up.
Init ==
    /\ InitCore
    /\ active = {1}
    /\ cap = [s \in Sessions |-> MaxMsgs]
    /\ InitRes({1})
    /\ policy = [s \in Sessions |-> "any"]

\* Two engine instances, set up, in one host process.
InitTwo ==
    /\ InitCore
    /\ active = {1, 2}
    /\ cap = [s \in Sessions |-> IF s = 1 THEN MaxMsgsTwo ELSE ShortestSuperstep]
    /\ InitRes({1, 2})
    /\ policy = [s \in Sessions |-> "any"]

Next ==
    \/ \E s \in active : RunSuperstep(s) /\ UNCHANGED <<res, policy>>
    \/ \E s \in active : Worker(s) /\ UNCHANGED <<res, policy>>
    \/ \E s \in active : WorkerFail(s) /\ UNCHANGED <<res, policy>>
    \/ \E s \in active : Tools(s) /\ UNCHANGED <<res, policy>>
    \/ \E s \in active : Evaluator(s) /\ UNCHANGED <<res, policy>>
    \/ \E s \in active : EvaluatorFail(s) /\ UNCHANGED <<res, policy>>
    \/ \E s \in active : Return(s) /\ UNCHANGED <<res, policy>>

Spec == Init /\ [][Next]_vars

SpecTwo == InitTwo /\ [][Next]_vars

\* ------------------------------------------------- one superstep to its end
\* How the two models answer during one superstep: the worker requests a tool
\* every time; the evaluator rejects every time; or the worker calls tools
\* once and the evaluator rejects once and then ends the superstep.
Policies == {"always_tools", "never_accepts", "accepts_second"}

\* The response the worker model just gave is one the policy allows.
WorkerFollows(s) ==
    LET response == Last(state'[s].messages)
    IN  CASE policy[s] = "always_tools" -> response.tool_calls = <<"t1">>
          [] policy[s] = "never_accepts" -> response.tool_calls = <<>>
          [] policy[s] = "accepts_second" ->
                (response.tool_calls # <<>>) = (Steps(s) = 0)
          [] OTHER -> TRUE

\* The tool results just appended are ones the policy allows.
ToolsFollow(s) ==
    policy[s] = "always_tools" =>
        \A i \in DOMAIN state'[s].messages :
            i > Len(state[s].messages) => state'[s].messages[i].content = <<"ok">>

\* The judgment the evaluator model just gave is one the policy allows.
EvaluatorFollows(s) ==
    LET eval == eval_result'[s]
        ends == eval.success_criteria_met \/ eval.user_input_needed
    IN  CASE policy[s] = "never_accepts" -> ~ends /\ eval.feedback = <<"f1">>
          [] policy[s] = "accepts_second" ->
                /\ ends = Truthy(state[s].feedback_on_work)
                /\ eval.feedback = <<"f1">>
          [] OTHER -> TRUE

\* One engine instance, set up; the cap on messages lies above what one
\* graph run can append.
InitLive ==
    /\ InitCore
    /\ active = {1}
    /\ cap = [s \in Sessions |-> 2 * RecursionLimit + 2]
    /\ InitRes({1})
    /\ policy = [s \in Sessions |-> "any"]

\* The first run_superstep of an instance, with the models' behaviour fixed.
FirstSuperstep(s) ==
    /\ call[s] = "none"
    /\ RunSuperstep(s)
    /\ \E p \in Policies : policy' = [policy EXCEPT ![s] = p]

\* What the event loop does for a superstep of s once it awaits graph.ainvoke.
Progress(s) ==
    \/ Worker(s) /\ WorkerFollows(s) /\ UNCHANGED <<res, policy>>
    \/ Tools(s) /\ ToolsFollow(s) /\ UNCHANGED <<res, policy>>
    \/ Evaluator(s) /\ EvaluatorFollows(s) /\ UNCHANGED <<res, policy>>
    \/ OutOfSteps(s) /\ UNCHANGED <<res, policy>>
    \/ Return(s) /\ UNCHANGED <<res, policy>>

NextLive ==
    \/ \E s \in active : FirstSuperstep(s) /\ UNCHANGED res
    \/ \E s \in active : Worker(s) /\ WorkerFollows(s) /\ UNCHANGED <<res, policy>>
    \/ \E s \in active : WorkerFail(s) /\ UNCHANGED <<res, policy>>
    \/ \E s \in active : Tools(s) /\ ToolsFollow(s) /\ UNCHANGED <<res, policy>>
    \/ \E s \in active : Evaluator(s) /\ EvaluatorFollows(s) /\ UNCHANGED <<res, policy>>
    \/ \E s \in active : EvaluatorFail(s) /\ UNCHANGED <<res, policy>>
    \/ \E s \in active : OutOfSteps(s) /\ UNCHANGED <<res, policy>>
    \/ \E s \in active : Return(s) /\ UNCHANGED <<res, policy>>

\* The awaited graph run is driven by the event loop: a node that is due runs,
\* and a model call that is awaited returns or fails.
SpecLive == InitLive /\ [][NextLive]_vars /\ \A s \in Sessions : WF_vars(Progress(s))

\* ------------------------------------------------------------ observations
\* A graph node of instance s completed in this step and control moved on.
NodeStep(s) == call[s] = "running" /\ trace'[s] = Append(trace[s], node'[s])

\* run_superstep of instance s was called in this step.
CallStep(s) == call[s] # "running" /\ call'[s] = "running"

\* run_superstep of instance s raised in this step.
RaiseStep(s) == call[s] = "running" /\ call'[s] = "raised"

\* A model call of instance s failed in this step.
FailStep(s) == failure[s] = "none" /\ failure'[s] # "none"

HasToolRequest(m) == m.type = "ai" /\ m.tool_calls # <<>>

\* The entries of messages that are worker responses.
WorkerReplies(s) ==
    {i \in DOMAIN state[s].messages :
        /\ state[s].messages[i].type = "ai"
        /\ \/ state[s].messages[i].tool_calls # <<>>
           \/ state[s].messages[i].content \in {r.content : r \in WorkerResponses}}

\* ------------------------------------------------------------------ claims
\* C1: the machine moves to EXIT (END) exactly when the judgment the Evaluator
\* step just received has success_criteria_met or user_input_needed true, and
\* to WORKER after every judgment with both false; END is entered from the
\* evaluator only, never from worker or tools.
C1_ExitIffJudgmentTerminates ==
    [][\A s \in Sessions :
          /\ (node[s] = "evaluator" /\ NodeStep(s)) =>
                /\ node'[s] = "END" <=>
                      (eval_result'[s].success_criteria_met
                          \/ eval_result'[s].user_input_needed)
                /\ node'[s] # "END" => node'[s] = "worker"
          /\ (node'[s] = "END" /\ node[s] # "END") => node[s] = "evaluator"
          /\ node'[s] = "END" =>
                (eval_result'[s].success_criteria_met
                    \/ eval_result'[s].user_input_needed)
      ]_vars

\* C1 witness: a superstep at END on user_input_needed alone, after an earlier
\* judgment of the same superstep sent it back to the worker.
C1_Witness ==
    /\ node[1] = "END"
    /\ eval_result[1].user_input_needed /\ ~eval_result[1].success_criteria_met
    /\ \E i \in 1..(Len(trace[1]) - 1) :
          trace[1][i] = "evaluator" /\ trace[1][i + 1] = "worker"

\* Histories that end in the entry m and differ before it.
OtherHistories(m) ==
    { <<m>>,
      <<HumanMessage(<<"m1">>), AIMessage(<<>>, <<"t1">>), ToolMessage(<<"ok">>), m>>,
      <<HumanMessage(<<"m2">>), AIMessage(<<"a1">>, <<>>), m>> }

\* C2: after a Worker step the next node is tools when the entry just appended
\* carries a non-empty tool request and evaluator when it carries none, and any
\* history ending in the same entry routes the same way.
C2_WorkerRouting ==
    \A s \in Sessions :
        node[s] \in {"tools", "evaluator"} =>
            LET last == Last(state[s].messages)
            IN  /\ node[s] = (IF HasToolRequest(last) THEN "tools" ELSE "evaluator")
                /\ \A h \in OtherHistories(last) :
                      worker_router([state[s] EXCEPT !.messages = h]) = node[s]

\* C2 witness: the worker answered without a tool request after an earlier
\* response of the same superstep had requested tools.
C2_Witness ==
    /\ node[1] = "evaluator"
    /\ ~HasToolRequest(Last(state[1].messages))
    /\ \E i \in DOMAIN state[1].messages :
          i > base[1] /\ HasToolRequest(state[1].messages[i])

\* C3: every step follows an edge of the graph (a new call enters worker through
\* START), tools is always followed by worker, nothing follows END, every other
\* node has a successor, and a superstep whose first response requests a tool
\* and whose second does not visits worker, tools, worker, evaluator.
C3_Transitions ==
    /\ [][\A s \in Sessions :
             (node'[s] # node[s] \/ trace'[s] # trace[s]) =>
                 \/ CallStep(s) /\ node'[s] = "worker" /\ trace'[s] = <<"worker">>
                 \/ /\ <<node[s], node'[s]>> \in Edges
                    /\ NodeStep(s)
                    /\ node[s] = "tools" => node'[s] = "worker"
         ]_vars
    /\ [](\A n \in {"START", "worker", "tools", "evaluator"} :
             \E e \in Edges : e[1] = n)
    /\ [](\A s \in Sessions :
             LET msgs == state[s].messages
                 first == base[s] + 2
                 second == first + Len(msgs[first].tool_calls) + 1
             IN  (/\ Len(msgs) >= first
                  /\ HasToolRequest(msgs[first])
                  /\ Len(msgs) >= second
                  /\ ~HasToolRequest(msgs[second]))
                 => /\ Len(trace[s]) >= 4
                    /\ SubSeq(trace[s], 1, 4) = <<"worker", "tools", "worker", "evaluator">>)

\* C3 witness: a superstep that went worker, tools, worker, evaluator and is
\* now at END.
C3_Witness ==
    /\ node[1] = "END"
    /\ trace[1] = <<"worker", "tools", "worker", "evaluator", "END">>

\* The worker node of instance s ran to the model call in this step (whether
\* the call answered or raised).
WorkerCallStep(s) ==
    /\ call[s] = "running" /\ node[s] = "worker"
    /\ NodeStep(s) \/ FailStep(s)

\* C4 as stated: at every point after a Worker step, the State's messages
\* holds exactly one system entry.
C4_OneSystemEntryInState ==
    \A s \in Sessions :
        WorkerReplies(s) # {} => SystemCount(state[s].messages) = 1

\* C4, amended: the State's messages holds no system entry at any point, however
\* many Worker steps ran; the one system entry exists only in the sequence the
\* Worker step passes to the model, which is never stored.
C4_NoSystemEntryInState ==
    \A s \in Sessions :
        /\ SystemCount(state[s].messages) = 0
        /\ WorkerReplies(s) # {} => SystemCount(llm_input[s]) = 1

\* C4 witness: three Worker steps in one session, spread over two supersteps.
C4_Witness ==
    /\ Cardinality(WorkerReplies(1)) >= 3
    /\ \E i \in WorkerReplies(1) : i <= base[1]
    /\ \E i \in WorkerReplies(1) : i > base[1]

\* C5: the sequence each Worker step passes to the model holds exactly one
\* system entry, at its head, followed by the State's messages as they were;
\* its content is built from the success_criteria and feedback_on_work the
\* State holds in that step: the criteria always, the rejection clause with the
\* current feedback exactly when feedback_on_work is set and not empty.
C5_SystemEntryOfModelCall ==
    [][\A s \in Sessions :
          WorkerCallStep(s) =>
              LET sent == llm_input'[s]
                  text == sent[1].content
                  clause == <<"Previous attempt was rejected for the following reason:">>
                            \o state[s].feedback_on_work
                            \o <<"Please correct the issue and continue.">>
              IN  /\ SystemCount(sent) = 1
                  /\ sent[1].type = "system"
                  /\ Tail(sent) = state[s].messages
                  /\ Contains(text, <<"Success criteria:">> \o state[s].success_criteria)
                  /\ IF Truthy(state[s].feedback_on_work)
                     THEN Contains(text, clause)
                     ELSE ~Contains(text,
                             <<"Previous attempt was rejected for the following reason:">>)
                  /\ \A f \in Feedbacks :
                        (Truthy(f) /\ f # state[s].feedback_on_work) => ~Contains(text, f)
      ]_vars

\* C5 witness: the model call of a Worker step that carries the rejection
\* clause with "f2" after an earlier one of the session carried "f1".
C5_Witness ==
    /\ node[1] \in {"tools", "evaluator"}
    /\ Contains(llm_input[1][1].content, <<"f2">>)
    /\ \E i \in DOMAIN state[1].messages :
          state[1].messages[i].content = <<"Evaluator feedback: ", "f1">>

\* C6: messages is append-only: in every step its length does not decrease and
\* every entry already present that is not a system entry stays where it was,
\* with its role and content (so the relative order is kept).
C6_AppendOnly ==
    [][\A s \in Sessions :
          /\ Len(state'[s].messages) >= Len(state[s].messages)
          /\ \A i \in DOMAIN state[s].messages :
                state[s].messages[i].type # "system" =>
                    /\ state'[s].messages[i].type = state[s].messages[i].type
                    /\ state'[s].messages[i].content = state[s].messages[i].content
      ]_vars

\* C6 witness: a second superstep seeded its user message behind the entries
\* of a first one that went through the tools node.
C6_Witness ==
    /\ base[1] >= 5
    /\ Len(state[1].messages) > base[1]
    /\ \E i \in 1..base[1] : state[1].messages[i].type = "tool"

\* C7: a run_superstep that returned gives back the transcript it was passed,
\* unchanged, followed by exactly three entries: the new user message, the
\* reply of the last Worker step (the one without a tool request, which the
\* final Evaluator step judged), and the feedback entry of the final judgment.
C7_ReturnedTranscript ==
    \A s \in Sessions :
        call[s] = "returned" =>
            LET n == Len(args[s].history)
                msgs == state[s].messages
                reply == msgs[Len(llm_input[s])]
            IN  /\ Len(result[s]) = n + 3
                /\ SubSeq(result[s], 1, n) = args[s].history
                /\ result[s][n + 1] = [role |-> "user", content |-> args[s].message]
                /\ reply.type = "ai" /\ reply.tool_calls = <<>>
                /\ Len(llm_input[s]) = Len(msgs) - 1
                /\ result[s][n + 2] = [role |-> "assistant", content |-> reply.content]
                /\ result[s][n + 3] =
                      [role |-> "assistant",
                       content |-> <<"Evaluator feedback: ">> \o eval_result[s].feedback]

\* C7 witness: a second call returned after a superstep of two worker/evaluator
\* cycles, on top of the three entries the first call had returned.
C7_Witness ==
    /\ call[1] = "returned"
    /\ Len(args[1].history) = 3
    /\ Len(state[1].messages) - base[1] >= 5

\* C8: a judgment with both flags false sends the machine to the worker, and
\* the instruction of every Worker step of a superstep that has a judgment
\* contains the feedback of the most recent one literally (inside the rejection
\* clause when it is not empty) and the feedback of no other.
C8_FeedbackReachesWorker ==
    [][\A s \in Sessions :
          /\ (node[s] = "evaluator" /\ NodeStep(s)
                /\ ~eval_result'[s].success_criteria_met
                /\ ~eval_result'[s].user_input_needed) => node'[s] = "worker"
          /\ (WorkerCallStep(s) /\ eval_result[s] # NoJudgment) =>
                LET text == llm_input'[s][1].content
                    f == eval_result[s].feedback
                IN  /\ Contains(text, f)
                    /\ f # <<>> =>
                          Contains(text,
                              <<"Previous attempt was rejected for the following reason:">>
                              \o f \o <<"Please correct the issue and continue.">>)
                    /\ \A g \in Feedbacks \ {f, <<>>} : ~Contains(text, g)
      ]_vars

\* C8 witness: the Worker step after a second rejection of the same superstep,
\* whose feedback "f2" differs from the first one's "f1".
C8_Witness ==
    /\ node[1] \in {"tools", "evaluator"}
    /\ eval_result[1].feedback = <<"f2">>
    /\ Len(state[1].messages) - base[1] = 6
    /\ state[1].messages[base[1] + 3].content = <<"Evaluator feedback: ", "f1">>
    /\ state[1].messages[base[1] + 5].content = <<"Evaluator feedback: ", "f2">>
    /\ Contains(llm_input[1][1].content, <<"f2">>)

\* C9: when the Evaluator's structured model call fails (the call or the parse),
\* run_superstep raises, no judgment is put in its place, and the State the
\* checkpointer then holds has neither flag true and no feedback entry of the
\* failed step: it is the State the step started from.
C9_EvaluatorFailure ==
    /\ [][\A s \in Sessions :
             (FailStep(s) /\ node[s] = "evaluator") =>
                 /\ call'[s] = "raised"
                 /\ eval_result'[s] = eval_result[s]
                 /\ state'[s] = state[s]
                 /\ node'[s] = node[s]
         ]_vars
    /\ [](\A s \in Sessions :
             (call[s] = "raised" /\ node[s] = "evaluator") =>
                 /\ ~state[s].success_criteria_met
                 /\ ~state[s].user_input_needed
                 /\ Last(state[s].messages).content \in {r.content : r \in WorkerResponses}
                 /\ Last(state[s].messages).type = "ai")

\* C9 witness: the structured call failed on a parse error in the second
\* evaluation of a superstep.
C9_Witness ==
    /\ call[1] = "raised" /\ node[1] = "evaluator"
    /\ failure[1] = "parse_error"
    /\ eval_result[1] # NoJudgment

\* C10: when a Worker or Evaluator model call fails, run_superstep raises in the
\* same step: nothing is returned, the transcript the caller passed is as it
\* was, the State of the checkpointer is what the failing step started from,
\* and no node of that superstep runs afterwards.
C10_ModelFailurePropagates ==
    [][\A s \in Sessions :
          /\ FailStep(s) =>
                /\ call[s] = "running" /\ call'[s] = "raised"
                /\ result'[s] = <<>>
                /\ args'[s] = args[s]
                /\ state'[s] = state[s]
                /\ trace'[s] = trace[s]
          /\ (call[s] = "raised"
                /\ <<state'[s], node'[s], trace'[s], result'[s], llm_input'[s]>>
                      # <<state[s], node[s], trace[s], result[s], llm_input[s]>>)
             => CallStep(s)
      ]_vars

\* C10 witness: the Worker's model call failed in the second superstep of a
\* session whose caller holds the transcript of the first.
C10_Witness ==
    /\ call[1] = "raised" /\ node[1] = "worker"
    /\ failure[1] = "call_error"
    /\ Len(args[1].history) = 3
    /\ Len(trace[1]) >= 3

C12_CriteriaOfTheCall ==
    \A s \in Sessions :
        call[s] # "none" =>
            state[s].success_criteria =
                (IF args[s].success_criteria \in {None, <<>>}
                 THEN <<"The answer should be clear and accurate">>
                 ELSE args[s].success_criteria)

\* C12 witness: a superstep called without a criterion on a session whose
\* previous superstep ran with the criterion "c1".
C12_Witness ==
    /\ trace[1] = <<"worker">>
    /\ base[1] >= 3
    /\ args[1].success_criteria = None
    /\ state[1].success_criteria = <<"The answer should be clear and accurate">>
    /\ Contains(llm_input[1][1].content, <<"Success criteria:", "c1">>)

\* C13: a Worker step appends exactly one entry, the model's response, and
\* leaves the four other fields as they were; a Tool Dispatcher step leaves the
\* two flags as they were; and both flags are false in a superstep for which no
\* judgment has been returned yet.
C13_WorkerFrame ==
    [][\A s \in Sessions :
          /\ (node[s] = "worker" /\ NodeStep(s)) =>
                /\ Len(state'[s].messages) = Len(state[s].messages) + 1
                /\ SubSeq(state'[s].messages, 1, Len(state[s].messages))
                      = state[s].messages
                /\ Last(state'[s].messages).type = "ai"
                /\ state'[s].success_criteria = state[s].success_criteria
                /\ state'[s].feedback_on_work = state[s].feedback_on_work
                /\ state'[s].success_criteria_met = state[s].success_criteria_met
                /\ state'[s].user_input_needed = state[s].user_input_needed
          /\ (node[s] = "tools" /\ NodeStep(s)) =>
                /\ state'[s].success_criteria_met = state[s].success_criteria_met
                /\ state'[s].user_input_needed = state[s].user_input_needed
          /\ (call'[s] = "running" /\ eval_result'[s] = NoJudgment) =>
                /\ ~state'[s].success_criteria_met
                /\ ~state'[s].user_input_needed
      ]_vars

\* C13 witness: the Worker step that follows a rejection with feedback "f1" has
\* run, and feedback_on_work still holds "f1".
C13_Witness ==
    /\ node[1] = "evaluator"
    /\ Len(state[1].messages) = Len(llm_input[1])
    /\ state[1].feedback_on_work = <<"f1">>
    /\ eval_result[1].feedback = <<"f1">>

\* C14: an Evaluator step that completes appends exactly one assistant entry,
\* "Evaluator feedback: " followed by the feedback of the judgment, and sets
\* feedback_on_work and the two flags to the values of that judgment;
\* feedback_on_work is None as long as no judgment has been returned.
C14_EvaluatorWrites ==
    [][\A s \in Sessions :
          /\ (node[s] = "evaluator" /\ NodeStep(s)) =>
                LET j == eval_result'[s]
                    entry == Last(state'[s].messages)
                IN  /\ Len(state'[s].messages) = Len(state[s].messages) + 1
                    /\ SubSeq(state'[s].messages, 1, Len(state[s].messages))
                          = state[s].messages
                    /\ entry.type = "ai" /\ entry.tool_calls = <<>>
                    /\ entry.content = <<"Evaluator feedback: ">> \o j.feedback
                    /\ state'[s].feedback_on_work = j.feedback
                    /\ state'[s].success_criteria_met = j.success_criteria_met
                    /\ state'[s].user_input_needed = j.user_input_needed
          /\ eval_result'[s] = NoJudgment => state'[s].feedback_on_work = None
      ]_vars

\* C14 witness: the second evaluation of a superstep met the criteria with
\* feedback "f2", over the "f1" of the first.
C14_Witness ==
    /\ node[1] = "END"
    /\ Len(state[1].messages) = base[1] + 5
    /\ state[1].messages[base[1] + 3].content = <<"Evaluator feedback: ", "f1">>
    /\ state[1].feedback_on_work = <<"f2">>
    /\ state[1].success_criteria_met /\ ~state[1].user_input_needed

\* C15: cleanup() is idempotent: however often and in whichever context it is
\* called, the browser is closed at most once and the driver stopped at most
\* once (a second call closes or stops nothing that was released already).
C15_CleanupIdempotent ==
    \A s \in Sessions : closes[s] <= 1 /\ stops[s] <= 1

\* What belongs to instance s: its State, its checkpoints, its call.
Own(s) ==
    <<state[s], store[s], next_id[s], node[s], call[s], args[s], result[s],
      trace[s], base[s], llm_input[s], eval_result[s], failure[s]>>

\* C16: with two instances interleaved step by step, a step changes what
\* belongs to one instance only; a call seeds its user message on that
\* instance's own earlier messages; every routing decision follows from the
\* instance's own last entry and own judgment; and the transcript returned is
\* built from the instance's own arguments and messages.
C16_SessionsIsolated ==
    /\ [][\A s \in Sessions :
             /\ Own(s)' # Own(s) => \A t \in Sessions \ {s} : Own(t)' = Own(t)
             /\ CallStep(s) =>
                   /\ Len(state'[s].messages) = Len(state[s].messages) + 1
                   /\ SubSeq(state'[s].messages, 1, Len(state[s].messages))
                         = state[s].messages
                   /\ Last(state'[s].messages).content = args'[s].message
             /\ (node[s] = "evaluator" /\ NodeStep(s)) =>
                   (node'[s] = "END" <=>
                       (eval_result'[s].success_criteria_met
                           \/ eval_result'[s].user_input_needed))
         ]_vars
    /\ [](\A s \in Sessions :
             /\ node[s] \in {"tools", "evaluator"} =>
                   node[s] = (IF HasToolRequest(Last(state[s].messages))
                              THEN "tools" ELSE "evaluator")
             /\ call[s] = "returned" =>
                   LET n == Len(args[s].history)
                       msgs == state[s].messages
                   IN  /\ Len(result[s]) = n + 3
                       /\ SubSeq(result[s], 1, n) = args[s].history
                       /\ result[s][n + 1].content = args[s].message
                       /\ result[s][n + 2].content = msgs[Len(msgs) - 1].content
                       /\ result[s][n + 3].content =
                             <<"Evaluator feedback: ">> \o eval_result[s].feedback)

\* C16 witness: both instances are in the middle of a superstep, one waiting
\* for its tools and the other returned, with different messages.
C16_Witness ==
    /\ call[1] = "running" /\ node[1] = "tools"
    /\ call[2] = "returned"
    /\ state[1].messages[1].content # state[2].messages[1].content
    /\ result[2][2].content = <<"a1">>

PlainReplies == {r.content : r \in {w \in WorkerResponses : w.tool_calls = <<>>}}

\* C18: in every reachable state, the evaluator is the node to run only when
\* the last entry of messages is a worker response without a tool request, and
\* the tools node only when it is a worker response with a non-empty one; so
\* at END the last entry is the Evaluator feedback entry and the entry before
\* it is a worker response without a tool request, never a tool result, a
\* user message or another feedback entry.
C18_LastEntryPerNode ==
    \A s \in Sessions :
        LET msgs == state[s].messages
        IN  /\ node[s] = "evaluator" =>
                  /\ msgs # <<>>
                  /\ Last(msgs).type = "ai"
                  /\ Last(msgs).tool_calls = <<>>
                  /\ Last(msgs).content \in PlainReplies
            /\ node[s] = "tools" =>
                  /\ msgs # <<>>
                  /\ Last(msgs).type = "ai"
                  /\ Last(msgs).tool_calls # <<>>
            /\ node[s] = "END" =>
                  /\ Len(msgs) >= 3
                  /\ Last(msgs).type = "ai"
                  /\ Last(msgs).tool_calls = <<>>
                  /\ Last(msgs).content =
                        <<"Evaluator feedback: ">> \o eval_result[s].feedback
                  /\ msgs[Len(msgs) - 1].type = "ai"
                  /\ msgs[Len(msgs) - 1].tool_calls = <<>>
                  /\ msgs[Len(msgs) - 1].content \in PlainReplies

\* C18 witness: a superstep reached END after tools ran and after one judgment
\* sent the work back, so tool results and an earlier feedback entry are in
\* messages, and the entry before the last is still a plain worker response.
C18_Witness ==
    \E s \in Sessions :
        LET msgs == state[s].messages
        IN  /\ node[s] = "END" /\ call[s] = "running"
            /\ \E i \in DOMAIN msgs : msgs[i].type = "tool"
            /\ \E i \in 1..(Len(msgs) - 2) :
                  msgs[i].type = "ai" /\ msgs[i].content # <<>>
                      /\ msgs[i].content[1] = "Evaluator feedback: "
            /\ msgs[Len(msgs) - 1].content \in PlainReplies

RejectionClause == <<"Previous attempt was rejected for the following reason:">>

\* C19: every run_superstep call on an existing session starts its first
\* worker step with feedback_on_work None and both flags false, whatever the
\* previous superstep ended with, while messages keeps all earlier entries
\* followed by the new user message; the first worker instruction of a
\* superstep has no rejection clause, and until the evaluator of this
\* superstep has judged, the superstep is not at END.
C19_FreshSuperstep ==
    /\ [][\A s \in Sessions :
             /\ CallStep(s) =>
                   /\ state'[s].feedback_on_work = None
                   /\ state'[s].success_criteria_met = FALSE
                   /\ state'[s].user_input_needed = FALSE
                   /\ state'[s].messages =
                         state[s].messages \o
                            <<[HumanMessage(args'[s].message) EXCEPT !.id = next_id[s]]>>
                   /\ node'[s] = "worker"
             /\ (WorkerCallStep(s) /\ trace[s] = <<"worker">>) =>
                   /\ llm_input'[s][1].type = "system"
                   /\ ~Contains(llm_input'[s][1].content, RejectionClause)
         ]_vars
    /\ [](\A s \in Sessions :
             (call[s] = "running" /\ eval_result[s] = NoJudgment) =>
                 /\ node[s] # "END"
                 /\ state[s].feedback_on_work = None
                 /\ ~state[s].success_criteria_met
                 /\ ~state[s].user_input_needed)

\* C19 witness: the earlier superstep ended at END with its feedback "f1"
\* stored, and the first worker step of the next superstep has run on an
\* instruction without the rejection clause.
C19_Witness ==
    \E s \in Sessions :
        LET msgs == state[s].messages
        IN  /\ call[s] = "running"
            /\ Len(trace[s]) = 2
            /\ eval_result[s] = NoJudgment
            /\ \E i \in DOMAIN msgs :
                  msgs[i].content = <<"Evaluator feedback: ", "f1">>
            /\ Len(args[s].history) >= 3
            /\ state[s].feedback_on_work = None
            /\ ~Contains(llm_input[s][1].content, RejectionClause)

ModelFailures == {"call_error", "parse_error"}

\* C20 as stated: a superstep has no iteration cap; only EXIT or a failed
\* model call ends it, so a run_superstep that raised did so on a model failure.
C20_NoIterationCap ==
    \A s \in Sessions : call[s] = "raised" => failure[s] \in ModelFailures

\* C20, amended: a graph run takes at most RecursionLimit node steps; every
\* superstep that was started ends, by returning from END after a judgment
\* with a flag set, by a failed model call, or by the recursion-limit error
\* raised when RecursionLimit steps are done and a node is still due; and when
\* every worker response requests a tool, or every judgment has both flags
\* false, run_superstep never returns and does raise.
C20_SuperstepAlwaysEnds ==
    /\ [](\A s \in Sessions :
             /\ Steps(s) <= RecursionLimit
             /\ failure[s] = "recursion_limit" =>
                   /\ call[s] = "raised"
                   /\ node[s] # "END"
                   /\ Steps(s) = RecursionLimit
             /\ call[s] = "returned" =>
                   /\ node[s] = "END"
                   /\ eval_result[s].success_criteria_met
                         \/ eval_result[s].user_input_needed
             /\ policy[s] \in {"always_tools", "never_accepts"} =>
                   call[s] # "returned")
    /\ \A s \in Sessions :
          /\ (call[s] = "running") ~> (call[s] \in {"returned", "raised"})
          /\ (call[s] = "running" /\ policy[s] \in {"always_tools", "never_accepts"})
                ~> (call[s] = "raised"
                       /\ failure[s] \in ModelFailures \cup {"recursion_limit"})

\* C20 witness: the evaluator rejected every answer and, RecursionLimit steps
\* done, the graph run was cut off with a node still due.
C20_Witness ==
    \E s \in Sessions :
        /\ call[s] = "raised" /\ failure[s] = "recursion_limit"
        /\ policy[s] = "never_accepts"
        /\ node[s] \in {"worker", "evaluator"}
        /\ eval_result[s] = [feedback |-> <<"f1">>, success_criteria_met |-> FALSE,
                             user_input_needed |-> FALSE]
        /\ Steps(s) = RecursionLimit
        /\ Len(state[s].messages) = RecursionLimit + 1

====
